---- MODULE Spec2Model ----
(***************************************************************************)
(* Model of transcript_fw_mp4_opt.py: the timestamp formatters, the GPU    *)
(* thermal-protection poll (check_gpu_and_pause) and the incremental-write *)
(* transcription loop of main.                                             *)
(*                                                                         *)
(* Strings are sequences of one-character strings, so that formatting is   *)
(* a real conversion and two timestamps are equal exactly when the texts   *)
(* written to the files are equal.                                         *)
(***************************************************************************)
EXTENDS Integers, Sequences, FiniteSets, TLC

\* ------------------------------------------------------------------------
\* Bounds of the model
\* ------------------------------------------------------------------------

\* The most segments the model's generator yields in one run.
MaxSegs == 2

\* ------------------------------------------------------------------------
\* Python string formatting
\* ------------------------------------------------------------------------

DigitChars == <<"0", "1", "2", "3", "4", "5", "6", "7", "8", "9">>

RECURSIVE Digits(_)
\* str(n) for an integer n >= 0.
Digits(n) ==
    IF n < 10 THEN <<DigitChars[n + 1]>>
    ELSE Digits(n \div 10) \o <<DigitChars[(n % 10) + 1]>>

\* The format spec :0<w>d : at least w digits, zero-padded on the left, and
\* all the digits when there are more than w.
ZeroPad(n, w) ==
    LET d == Digits(n)
    IN  IF Len(d) >= w THEN d ELSE [k \in 1..(w - Len(d)) |-> "0"] \o d

\* ------------------------------------------------------------------------
\* ms_to_srt_time, ms_to_vtt_time
\* ------------------------------------------------------------------------
\* seconds = milliseconds / 1000 is a float; every later use truncates it
\* (// 3600, % 3600 // 60, % 60 under int()), so only floor(ms / 1000)
\* matters, which a double holds exactly for the timestamps of a recording.

TimeHours(milliseconds) == (milliseconds \div 1000) \div 3600

TimeMinutes(milliseconds) == ((milliseconds \div 1000) % 3600) \div 60

TimeSecs(milliseconds) == (milliseconds \div 1000) % 60

TimeMillis(milliseconds) == milliseconds % 1000

\* A buggy ms_to_srt_time: the minutes are not reduced modulo the hour.
ms_to_srt_time_minutes_not_reduced(milliseconds) ==
    ZeroPad(TimeHours(milliseconds), 2) \o <<":">>
        \o ZeroPad((milliseconds \div 1000) \div 60, 2) \o <<":">>
        \o ZeroPad(TimeSecs(milliseconds), 2) \o <<",">>
        \o ZeroPad(TimeMillis(milliseconds), 3)

ms_to_srt_time(milliseconds) ==
    ZeroPad(TimeHours(milliseconds), 2) \o <<":">>
        \o ZeroPad(TimeMinutes(milliseconds), 2) \o <<":">>
        \o ZeroPad(TimeSecs(milliseconds), 2) \o <<",">>
        \o ZeroPad(TimeMillis(milliseconds), 3)

ms_to_vtt_time(milliseconds) ==
    IF TimeHours(milliseconds) > 0
    THEN ZeroPad(TimeHours(milliseconds), 2) \o <<":">>
            \o ZeroPad(TimeMinutes(milliseconds), 2) \o <<".">>
            \o ZeroPad(TimeMillis(milliseconds), 3)
    ELSE ZeroPad(TimeMinutes(milliseconds), 2) \o <<":">>
            \o ZeroPad(TimeSecs(milliseconds), 2) \o <<".">>
            \o ZeroPad(TimeMillis(milliseconds), 3)

\* ------------------------------------------------------------------------
\* Reading a timestamp back (what a subtitle reader does with the text)
\* ------------------------------------------------------------------------

DigitValue(c) == (CHOOSE k \in 1..10 : DigitChars[k] = c) - 1

IsDigit(c) == \E k \in 1..10 : DigitChars[k] = c

RECURSIVE ParseInt(_)
\* int(s) for a non-empty sequence of digits.
ParseInt(s) ==
    IF Len(s) = 1 THEN DigitValue(s[1])
    ELSE ParseInt(SubSeq(s, 1, Len(s) - 1)) * 10 + DigitValue(s[Len(s)])

AllDigits(s) == Len(s) > 0 /\ \A k \in 1..Len(s) : IsDigit(s[k])

\* The positions of character c in s.
Positions(s, c) == {k \in 1..Len(s) : s[k] = c}

\* The fields of s split at the separator positions seps (a set).
RECURSIVE SplitAt(_, _)
SplitAt(s, seps) ==
    IF seps = {} THEN <<s>>
    ELSE LET p == CHOOSE q \in seps : \A r \in seps : q <= r
         IN  <<SubSeq(s, 1, p - 1)>>
                \o SplitAt(SubSeq(s, p + 1, Len(s)), {r - p : r \in seps \ {p}})

\* The fields of s split at ":" and at the decimal mark.
TimeFields(s, mark) == SplitAt(s, Positions(s, ":") \cup Positions(s, mark))

\* An SRT timestamp is HH:MM:SS,mmm : hours, minutes, seconds, milliseconds.
SrtWellFormed(s) ==
    /\ Cardinality(Positions(s, ":")) = 2
    /\ Cardinality(Positions(s, ",")) = 1
    /\ LET f == TimeFields(s, ",")
       IN  /\ Len(f) = 4
           /\ \A k \in 1..4 : AllDigits(f[k])
           /\ Len(f[1]) >= 2 /\ Len(f[2]) = 2 /\ Len(f[3]) = 2 /\ Len(f[4]) = 3

SrtFields(s) ==
    LET f == TimeFields(s, ",")
    IN  [hours |-> ParseInt(f[1]), minutes |-> ParseInt(f[2]),
         secs |-> ParseInt(f[3]), millis |-> ParseInt(f[4])]

FieldsToMs(f) == f.hours * 3600000 + f.minutes * 60000 + f.secs * 1000 + f.millis

SrtToMs(s) == FieldsToMs(SrtFields(s))

\* A WebVTT timestamp is MM:SS.mmm or HH:MM:SS.mmm : with one colon the
\* first field is the minutes and the second the seconds.
VttWellFormed(s) ==
    /\ Cardinality(Positions(s, ":")) \in {1, 2}
    /\ Cardinality(Positions(s, ".")) = 1
    /\ LET f == TimeFields(s, ".")
       IN  /\ \A k \in 1..Len(f) : AllDigits(f[k])
           /\ Len(f[Len(f)]) = 3

VttFields(s) ==
    LET f == TimeFields(s, ".")
    IN  IF Len(f) = 4
        THEN [hours |-> ParseInt(f[1]), minutes |-> ParseInt(f[2]),
              secs |-> ParseInt(f[3]), millis |-> ParseInt(f[4])]
        ELSE [hours |-> 0, minutes |-> ParseInt(f[1]),
              secs |-> ParseInt(f[2]), millis |-> ParseInt(f[3])]

VttToMs(s) == FieldsToMs(VttFields(s))

\* ------------------------------------------------------------------------
\* Command line (argparse defaults of main) and the GPU driver's readings
\* ------------------------------------------------------------------------

temp_limit == 55

load_limit == 70

pause_time == 90

\* --device: "cuda" is the default; anything else is passed to the model as is.
Devices == {"cuda", "cpu", "auto"}

\* What nvmlDeviceGetTemperature and nvmlDeviceGetUtilizationRates(...).gpu
\* may return: a value below, at and above each threshold.
TempReadings == {temp_limit - 1, temp_limit, temp_limit + 1}

UtilReadings == {load_limit - 1, load_limit, load_limit + 1}

\* <<int(segment.start * 1000), int(segment.end * 1000)>> of a yielded
\* segment: start <= end, below one hour, across the hour and above it.
SegmentTimes == {<<0, 59999>>, <<59999, 3600000>>, <<3600000, 3601000>>}

\* Inputs of the formatters checked on their own: every combination of
\* these hours, minutes, seconds and milliseconds.
FmtInputs ==
    {h * 3600000 + m * 60000 + s * 1000 + k :
        h \in {0, 1, 10, 100}, m \in {0, 1, 59}, s \in {0, 1, 59}, k \in {0, 1, 999}}

\* ------------------------------------------------------------------------
\* State
\* ------------------------------------------------------------------------

VARIABLES
    device,       \* args.device
    pc,           \* where main (or check_gpu_and_pause, called from it) stands
    yielded,      \* how many segments the generator has yielded
    i,            \* the loop counter of enumerate(segments, 1); 0 before the loop
    segment,      \* the segment of the current iteration
    temp,         \* check_gpu_and_pause: the last temperature read (-1: none)
    util,         \* check_gpu_and_pause: the last util.gpu read (-1: none)
    raised,       \* an NVMLError was raised in the current call's try block
    shutdowns,    \* nvmlShutdown attempts of the current call
    shutdown_raised, \* the last nvmlShutdown raised (swallowed by except:)
    ncalls,       \* calls of check_gpu_and_pause so far
    nvml_used,    \* some pynvml function has been called in this run
    last_sleep,   \* seconds of the last time.sleep (0: never slept)
    txt_f, tsv_f, srt_f, vtt_f,   \* the four output files
    fmt           \* the formatters applied on their own to two inputs

loopvars == <<pc, yielded, i, segment>>

gpuvars == <<temp, util, raised, shutdowns, shutdown_raised, ncalls, nvml_used, last_sleep>>

filevars == <<txt_f, tsv_f, srt_f, vtt_f>>

vars == <<device, loopvars, gpuvars, filevars, fmt>>

\* A file object: what has been written to it, how much of that has been
\* flushed to disk, and whether it is open.
NewFile == [data |-> <<>>, flushed |-> 0, open |-> FALSE]

FileWrite(f, rec) == [f EXCEPT !.data = Append(@, rec)]

FileFlush(f) == [f EXCEPT !.flushed = Len(f.data)]

\* Leaving the with block: close() flushes what is buffered.
FileClose(f) == [f EXCEPT !.flushed = Len(f.data), !.open = FALSE]

\* What a reader of the file on disk sees.
OnDisk(f) == SubSeq(f.data, 1, f.flushed)

NoSegment == [id |-> 0, start_ms |-> 0, end_ms |-> 0]

FmtIdle == [pc |-> "idle", ms1 |-> 0, ms2 |-> 0,
            srt1 |-> <<>>, srt2 |-> <<>>, vtt1 |-> <<>>, vtt2 |-> <<>>]

InitState ==
    /\ pc = "open"
    /\ yielded = 0
    /\ i = 0
    /\ segment = NoSegment
    /\ temp = -1
    /\ util = -1
    /\ raised = FALSE
    /\ shutdowns = 0
    /\ shutdown_raised = FALSE
    /\ ncalls = 0
    /\ nvml_used = FALSE
    /\ last_sleep = 0
    /\ txt_f = NewFile
    /\ tsv_f = NewFile
    /\ srt_f = NewFile
    /\ vtt_f = NewFile

Init ==
    /\ device \in Devices
    /\ InitState
    /\ fmt = FmtIdle

\* ------------------------------------------------------------------------
\* main: opening the files and the loop over the segments
\* ------------------------------------------------------------------------

\* with open(...) as txt_f, ... : the four files are opened (truncated) and
\* the TSV and WEBVTT headers are written, unflushed.
OpenFiles ==
    /\ pc = "open"
    /\ txt_f' = [NewFile EXCEPT !.open = TRUE]
    /\ tsv_f' = FileWrite([NewFile EXCEPT !.open = TRUE],
                          [kind |-> "header", text |-> "start\tend\ttext\n"])
    /\ srt_f' = [NewFile EXCEPT !.open = TRUE]
    /\ vtt_f' = FileWrite([NewFile EXCEPT !.open = TRUE],
                          [kind |-> "header", text |-> "WEBVTT\n\n"])
    /\ pc' = "fetch"
    /\ UNCHANGED <<device, yielded, i, segment, gpuvars, fmt>>

\* A buggy guard: every device but "cpu" is taken for a GPU.
ThermalProtectionEnabled_not_cpu(dev) == dev # "cpu"

\* if args.device == "cuda":
ThermalProtectionEnabled(dev) == dev = "cuda"

\* for i, segment in enumerate(segments, 1): the generator yields the next
\* segment; on "cuda" check_gpu_and_pause is called before anything else.
FetchSegment ==
    /\ pc = "fetch"
    /\ yielded < MaxSegs
    /\ \E t \in SegmentTimes :
          segment' = [id |-> yielded + 1, start_ms |-> t[1], end_ms |-> t[2]]
    /\ yielded' = yielded + 1
    /\ i' = i + 1
    /\ IF ThermalProtectionEnabled(device)
       THEN /\ pc' = "nvml_init"
            /\ ncalls' = ncalls + 1
            /\ raised' = FALSE
            /\ shutdowns' = 0
            /\ temp' = -1
            /\ util' = -1
            /\ UNCHANGED <<shutdown_raised, nvml_used, last_sleep>>
       ELSE /\ pc' = "write_txt"
            /\ UNCHANGED gpuvars
    /\ UNCHANGED <<device, filevars, fmt>>

\* The generator is exhausted: the loop ends.
SegmentsExhausted ==
    /\ pc = "fetch"
    /\ pc' = "close"
    /\ UNCHANGED <<device, yielded, i, segment, gpuvars, filevars, fmt>>

\* ------------------------------------------------------------------------
\* check_gpu_and_pause
\* ------------------------------------------------------------------------

\* Buggy conditions: a reading at the threshold pauses; one reading above
\* its threshold is enough to pause.
ShouldPause_at_threshold(t, u) == t >= temp_limit /\ u >= load_limit

ShouldPause_either(t, u) == t > temp_limit \/ u > load_limit

\* if temp > temp_threshold and util.gpu > load_threshold:
ShouldPause(t, u) == t > temp_limit /\ u > load_limit

\* An NVML call of the try block raises NVMLError: control goes to the
\* except clause.
RaiseNVMLError ==
    /\ raised' = TRUE
    /\ pc' = "except"

\* pynvml.nvmlInit()
NvmlInit ==
    /\ pc = "nvml_init"
    /\ nvml_used' = TRUE
    /\ \/ pc' = "get_handle" /\ UNCHANGED raised
       \/ RaiseNVMLError
    /\ UNCHANGED <<device, yielded, i, segment, temp, util, shutdowns,
                   shutdown_raised, ncalls, last_sleep, filevars, fmt>>

\* handle = pynvml.nvmlDeviceGetHandleByIndex(0)
GetHandle ==
    /\ pc = "get_handle"
    /\ \/ pc' = "get_temp" /\ UNCHANGED raised
       \/ RaiseNVMLError
    /\ UNCHANGED <<device, yielded, i, segment, temp, util, shutdowns,
                   shutdown_raised, ncalls, nvml_used, last_sleep, filevars, fmt>>

\* temp = pynvml.nvmlDeviceGetTemperature(handle, NVML_TEMPERATURE_GPU)
GetTemperature ==
    /\ pc = "get_temp"
    /\ \/ /\ \E t \in TempReadings : temp' = t
          /\ pc' = "get_util"
          /\ UNCHANGED raised
       \/ RaiseNVMLError /\ UNCHANGED temp
    /\ UNCHANGED <<device, yielded, i, segment, util, shutdowns,
                   shutdown_raised, ncalls, nvml_used, last_sleep, filevars, fmt>>

\* util = pynvml.nvmlDeviceGetUtilizationRates(handle), then the if of the
\* loop body: both above their thresholds goes to the sleep, anything else
\* breaks out of the loop.
GetUtilization ==
    /\ pc = "get_util"
    /\ \/ /\ \E u \in UtilReadings :
                /\ util' = u
                /\ pc' = IF ShouldPause(temp, u) THEN "sleep" ELSE "finally"
          /\ UNCHANGED raised
       \/ RaiseNVMLError /\ UNCHANGED util
    /\ UNCHANGED <<device, yielded, i, segment, temp, shutdowns,
                   shutdown_raised, ncalls, nvml_used, last_sleep, filevars, fmt>>

\* time.sleep(pause_time), then the next turn of while True.
Sleep ==
    /\ pc = "sleep"
    /\ last_sleep' = pause_time
    /\ pc' = "get_temp"
    /\ UNCHANGED <<device, yielded, i, segment, temp, util, raised, shutdowns,
                   shutdown_raised, ncalls, nvml_used, filevars, fmt>>

\* except pynvml.NVMLError as e: pass
ExceptNVMLError ==
    /\ pc = "except"
    /\ pc' = "finally"
    /\ UNCHANGED <<device, yielded, i, segment, gpuvars, filevars, fmt>>

\* A buggy finally clause: the driver is not shut down.
Finally_no_shutdown ==
    /\ pc = "finally"
    /\ pc' = "write_txt"
    /\ UNCHANGED <<device, yielded, i, segment, gpuvars, filevars, fmt>>

\* finally: try: pynvml.nvmlShutdown() except: pass -- whether or not the
\* shutdown raises, the function returns to the loop body.
Finally ==
    /\ pc = "finally"
    /\ shutdowns' = shutdowns + 1
    /\ nvml_used' = TRUE
    /\ shutdown_raised' \in BOOLEAN
    /\ pc' = "write_txt"
    /\ UNCHANGED <<device, yielded, i, segment, temp, util, raised, ncalls,
                   last_sleep, filevars, fmt>>

\* ------------------------------------------------------------------------
\* main: the body of the loop
\* ------------------------------------------------------------------------

\* text = segment.text.strip(): the text of the id-th yielded segment.
Text(seg) == seg.id

\* txt_f.write(text + " ")
WriteTxt ==
    /\ pc = "write_txt"
    /\ txt_f' = FileWrite(txt_f, [kind |-> "text", text |-> Text(segment)])
    /\ pc' = "flush_txt"
    /\ UNCHANGED <<device, yielded, i, segment, gpuvars, tsv_f, srt_f, vtt_f, fmt>>

\* txt_f.flush()
FlushTxt ==
    /\ pc = "flush_txt"
    /\ txt_f' = FileFlush(txt_f)
    /\ pc' = "write_tsv"
    /\ UNCHANGED <<device, yielded, i, segment, gpuvars, tsv_f, srt_f, vtt_f, fmt>>

\* tsv_f.write(f"{start_ms}\t{end_ms}\t{text}\n")
WriteTsv ==
    /\ pc = "write_tsv"
    /\ tsv_f' = FileWrite(tsv_f, [kind |-> "row", start |-> Digits(segment.start_ms),
                                  end |-> Digits(segment.end_ms),
                                  text |-> Text(segment)])
    /\ pc' = "flush_tsv"
    /\ UNCHANGED <<device, yielded, i, segment, gpuvars, txt_f, srt_f, vtt_f, fmt>>

\* A buggy flush: the row stays in the buffer.
FlushTsv_missing ==
    /\ pc = "flush_tsv"
    /\ pc' = "write_srt"
    /\ UNCHANGED <<device, yielded, i, segment, gpuvars, filevars, fmt>>

\* tsv_f.flush()
FlushTsv ==
    /\ pc = "flush_tsv"
    /\ tsv_f' = FileFlush(tsv_f)
    /\ pc' = "write_srt"
    /\ UNCHANGED <<device, yielded, i, segment, gpuvars, txt_f, srt_f, vtt_f, fmt>>

\* srt_f.write(f"{i}\n{start_srt} --> {end_srt}\n{text}\n\n")
WriteSrt ==
    /\ pc = "write_srt"
    /\ srt_f' = FileWrite(srt_f, [kind |-> "cue", n |-> i,
                                  start |-> ms_to_srt_time(segment.start_ms),
                                  end |-> ms_to_srt_time(segment.end_ms),
                                  text |-> Text(segment)])
    /\ pc' = "flush_srt"
    /\ UNCHANGED <<device, yielded, i, segment, gpuvars, txt_f, tsv_f, vtt_f, fmt>>

\* srt_f.flush()
FlushSrt ==
    /\ pc = "flush_srt"
    /\ srt_f' = FileFlush(srt_f)
    /\ pc' = "write_vtt"
    /\ UNCHANGED <<device, yielded, i, segment, gpuvars, txt_f, tsv_f, vtt_f, fmt>>

\* vtt_f.write(f"{start_vtt} --> {end_vtt}\n{text}\n\n")
WriteVtt ==
    /\ pc = "write_vtt"
    /\ vtt_f' = FileWrite(vtt_f, [kind |-> "cue", n |-> 0,
                                  start |-> ms_to_vtt_time(segment.start_ms),
                                  end |-> ms_to_vtt_time(segment.end_ms),
                                  text |-> Text(segment)])
    /\ pc' = "flush_vtt"
    /\ UNCHANGED <<device, yielded, i, segment, gpuvars, txt_f, tsv_f, srt_f, fmt>>

\* vtt_f.flush(); the rest of the body (logging, progress bar) writes
\* nothing to the four files, and the loop asks for the next segment.
FlushVtt ==
    /\ pc = "flush_vtt"
    /\ vtt_f' = FileFlush(vtt_f)
    /\ pc' = "fetch"
    /\ UNCHANGED <<device, yielded, i, segment, gpuvars, txt_f, tsv_f, srt_f, fmt>>

\* The with block ends: the four files are closed; main runs to its end.
CloseFiles ==
    /\ pc = "close"
    /\ txt_f' = FileClose(txt_f)
    /\ tsv_f' = FileClose(tsv_f)
    /\ srt_f' = FileClose(srt_f)
    /\ vtt_f' = FileClose(vtt_f)
    /\ pc' = "done"
    /\ UNCHANGED <<device, yielded, i, segment, gpuvars, fmt>>

Next ==
    \/ OpenFiles
    \/ FetchSegment
    \/ SegmentsExhausted
    \/ NvmlInit
    \/ GetHandle
    \/ GetTemperature
    \/ GetUtilization
    \/ Sleep
    \/ ExceptNVMLError
    \/ Finally
    \/ WriteTxt
    \/ FlushTxt
    \/ WriteTsv
    \/ FlushTsv
    \/ WriteSrt
    \/ FlushSrt
    \/ WriteVtt
    \/ FlushVtt
    \/ CloseFiles

Spec == Init /\ [][Next]_vars

\* ------------------------------------------------------------------------
\* The run under the scheduling the interpreter gives: a statement that can
\* execute does; and the driver, polled again and again, eventually gives a
\* reading that is not above both thresholds.
\* ------------------------------------------------------------------------

\* A poll completes with a reading that has the temperature at or below
\* temp_limit or the utilization at or below load_limit.
PollNotAboveBoth ==
    /\ GetUtilization
    /\ raised' = raised
    /\ temp <= temp_limit \/ util' <= load_limit

FairSpec == Spec /\ WF_vars(Next) /\ SF_vars(PollNotAboveBoth)

\* ------------------------------------------------------------------------
\* The formatters on their own: two inputs are drawn and both are formatted
\* ------------------------------------------------------------------------

FmtInit ==
    /\ device = "cpu"
    /\ InitState
    /\ \E a \in FmtInputs, b \in FmtInputs :
          fmt = [FmtIdle EXCEPT !.pc = "in", !.ms1 = a, !.ms2 = b]

FmtConvert ==
    /\ fmt.pc = "in"
    /\ fmt' = [fmt EXCEPT !.pc = "out",
                          !.srt1 = ms_to_srt_time(fmt.ms1),
                          !.srt2 = ms_to_srt_time(fmt.ms2),
                          !.vtt1 = ms_to_vtt_time(fmt.ms1),
                          !.vtt2 = ms_to_vtt_time(fmt.ms2)]
    /\ UNCHANGED <<device, loopvars, gpuvars, filevars>>

FmtNext == FmtConvert

FmtSpec == FmtInit /\ [][FmtNext]_vars

\* ------------------------------------------------------------------------
\* Vocabulary of the properties
\* ------------------------------------------------------------------------

CheckPhase == {"nvml_init", "get_handle", "get_temp", "get_util", "sleep",
               "except", "finally"}

WritePhase == {"write_txt", "flush_txt", "write_tsv", "flush_tsv",
               "write_srt", "flush_srt", "write_vtt", "flush_vtt"}

\* The records of a sequence that are not a header.
RECURSIVE Body(_)
Body(recs) ==
    IF recs = <<>> THEN <<>>
    ELSE IF Head(recs).kind = "header" THEN Body(Tail(recs))
         ELSE <<Head(recs)>> \o Body(Tail(recs))

\* The segments whose records a sequence holds, in the sequence's order.
SegIds(recs) == [k \in 1..Len(Body(recs)) |-> Body(recs)[k].text]

\* The identity sequence 1, 2, ..., n.
UpTo(n) == [k \in 1..n |-> k]

Files == <<txt_f, tsv_f, srt_f, vtt_f>>

\* Some record of segment k has been written (flushed or not) to file f.
Written(f, k) == \E j \in 1..Len(f.data) : f.data[j].kind # "header" /\ f.data[j].text = k

\* Segment k is on disk in each of the four files.
SegOnDisk(k) == \A n \in 1..4 : \E j \in 1..Len(SegIds(OnDisk(Files[n]))) :
                    SegIds(OnDisk(Files[n]))[j] = k

\* The last reading of the current call is not above both thresholds.
ReadingNotAboveBoth == temp >= 0 /\ util >= 0 /\ (temp <= temp_limit \/ util <= load_limit)

\* The iterations of the loop that have run to their end.
Completed == IF pc \in CheckPhase \cup WritePhase THEN i - 1 ELSE i

\* ------------------------------------------------------------------------
\* C1
\* ------------------------------------------------------------------------

\* C1: on "cuda" check_gpu_and_pause is called exactly once per segment,
\* after the segment is obtained and before any of its text is written to
\* any of the four files; the call returns only after a reading that is not
\* above both thresholds, or after an NVML error; and the loop is at its
\* sleep only right after a reading with both values strictly above their
\* thresholds.
C1_ThrottledByPoll ==
    device = "cuda" =>
        /\ ncalls = i
        /\ pc \in CheckPhase => \A n \in 1..4 : ~Written(Files[n], i)
        /\ pc \in WritePhase \cup {"finally"} => raised \/ ReadingNotAboveBoth
        /\ pc = "sleep" => ~raised /\ temp > temp_limit /\ util > load_limit

\* A second segment is being written after a pause and a clean return.
C1_Witness ==
    /\ device = "cuda"
    /\ pc = "write_srt"
    /\ i = 2
    /\ ~raised
    /\ last_sleep = pause_time

\* ------------------------------------------------------------------------
\* C2
\* ------------------------------------------------------------------------

\* C2 as stated: a completed poll that reads a temperature above temp_limit,
\* or a utilization above load_limit, is followed by the pause, whatever the
\* other reading is.
C2_EitherReadingPauses ==
    [][(pc = "get_util" /\ pc' # "except"
            /\ (temp > temp_limit \/ util' > load_limit))
        => pc' = "sleep"]_vars

\* C2 amended: a completed poll is followed by the pause exactly when the
\* temperature is above temp_limit and the utilization is above load_limit;
\* the pause lasts pause_time seconds, happens before the segment is written
\* and is followed by another poll.
C2_BothReadingsPause ==
    [][/\ (pc = "get_util" /\ pc' # "except")
            => (pc' = "sleep" <=> (temp > temp_limit /\ util' > load_limit))
       /\ pc = "sleep"
            => /\ last_sleep' = pause_time
               /\ pc' = "get_temp"
               /\ \A n \in 1..4 : ~Written(Files[n], i)]_vars

\* The call returned, after a pause, on a reading with the temperature
\* above its limit and the utilization not above its own.
C2_Witness ==
    /\ device = "cuda"
    /\ pc = "write_txt"
    /\ i = 1
    /\ ~raised
    /\ last_sleep = pause_time
    /\ temp > temp_limit
    /\ util <= load_limit

\* ------------------------------------------------------------------------
\* C3
\* ------------------------------------------------------------------------

TsvHeader == [kind |-> "header", text |-> "start\tend\ttext\n"]

VttHeader == [kind |-> "header", text |-> "WEBVTT\n\n"]

\* C4: once the files are open the TSV and WEBVTT headers come first in their
\* files and nowhere else; whenever the loop is between iterations or in the
\* thermal check, each of the four files holds on disk the records of
\* exactly the segments of the completed iterations, in the order yielded,
\* with SRT cue numbers 1, 2, ...; and while a segment is being written each
\* file holds on disk either those or those and the segment being written.
C4_IncrementalWriting ==
    pc # "open" =>
        /\ Len(tsv_f.data) >= 1 /\ tsv_f.data[1] = TsvHeader
        /\ Len(vtt_f.data) >= 1 /\ vtt_f.data[1] = VttHeader
        /\ Body(tsv_f.data) = Tail(tsv_f.data)
        /\ Body(vtt_f.data) = Tail(vtt_f.data)
        /\ Body(txt_f.data) = txt_f.data
        /\ Body(srt_f.data) = srt_f.data
        /\ Completed = (IF pc \in CheckPhase \cup WritePhase THEN yielded - 1 ELSE yielded)
        /\ \A n \in 1..4 :
              IF pc \in WritePhase
              THEN SegIds(OnDisk(Files[n])) \in {UpTo(Completed), UpTo(Completed + 1)}
              ELSE SegIds(OnDisk(Files[n])) = UpTo(Completed)
        /\ \A k \in 1..Len(OnDisk(srt_f)) : OnDisk(srt_f)[k].n = k

\* The loop is in a thermal pause for the second segment.
C4_Witness ==
    /\ pc = "sleep"
    /\ i = 2
    /\ SegOnDisk(1)
    /\ ~SegOnDisk(2)

\* ------------------------------------------------------------------------
\* C5
\* ------------------------------------------------------------------------

\* C5: the text ms_to_srt_time returns is HH:MM:SS,mmm whose fields satisfy
\* hours*3600000 + minutes*60000 + secs*1000 + millis = ms with minutes and
\* secs below 60 and millis below 1000; different inputs give different
\* texts, and ms1 <= ms2 gives a first time not after the second.
C5_SrtTimeExact ==
    fmt.pc = "out" =>
        /\ SrtWellFormed(fmt.srt1)
        /\ SrtWellFormed(fmt.srt2)
        /\ LET f == SrtFields(fmt.srt1)
           IN  /\ FieldsToMs(f) = fmt.ms1
               /\ f.minutes \in 0..59
               /\ f.secs \in 0..59
               /\ f.millis \in 0..999
        /\ fmt.ms1 # fmt.ms2 => fmt.srt1 # fmt.srt2
        /\ fmt.ms1 <= fmt.ms2 => SrtToMs(fmt.srt1) <= SrtToMs(fmt.srt2)

\* Two different inputs, one of a hundred hours and more, have been formatted.
C5_Witness ==
    /\ fmt.pc = "out"
    /\ TimeHours(fmt.ms1) >= 100
    /\ TimeSecs(fmt.ms1) = 59
    /\ fmt.ms1 < fmt.ms2

\* ------------------------------------------------------------------------
\* C6
\* ------------------------------------------------------------------------

\* The times (in ms) of the k-th segment written, read from its TSV row.
RowStart(k) == ParseInt(Body(tsv_f.data)[k].start)

RowEnd(k) == ParseInt(Body(tsv_f.data)[k].end)

\* C6: every cue time written to the .vtt file is a WebVTT timestamp that
\* denotes the segment's time in milliseconds and the same instant as the
\* time written to the .srt file for that segment, and two cues with
\* different start times have different start texts.
C6_VttDenotesSameInstant ==
    \A k \in 1..Len(Body(vtt_f.data)) :
        LET v == Body(vtt_f.data)[k]
            s == srt_f.data[k]
        IN  /\ VttWellFormed(v.start) /\ VttWellFormed(v.end)
            /\ VttToMs(v.start) = RowStart(k)
            /\ VttToMs(v.end) = RowEnd(k)
            /\ VttToMs(v.start) = SrtToMs(s.start)
            /\ VttToMs(v.end) = SrtToMs(s.end)
            /\ RowStart(k) # RowEnd(k) => v.start # v.end
            /\ \A j \in 1..Len(Body(vtt_f.data)) :
                  RowStart(j) # RowStart(k) => Body(vtt_f.data)[j].start # v.start

\* ------------------------------------------------------------------------
\* C7
\* ------------------------------------------------------------------------

\* C7: a completed poll leaves the loop exactly when it reads a temperature
\* at or below temp_limit or a utilization at or below load_limit, and
\* otherwise sleeps and polls again, with no bound on the number of turns;
\* no segment is being written unless such a poll, or an NVML error, ended
\* the check; and when every check eventually gets such a poll the run ends
\* with every yielded segment on disk in the four files and the files closed.
C7_Termination ==
    /\ [][/\ (pc = "get_util" /\ pc' # "except")
               => (pc' = "finally" <=> (temp <= temp_limit \/ util' <= load_limit))
          /\ (pc = "get_util" /\ pc' # "except")
               => pc' \in {"finally", "sleep"}
          /\ pc = "sleep" => pc' = "get_temp"]_vars
    /\ [](device = "cuda" /\ Written(txt_f, i) => raised \/ ReadingNotAboveBoth)
    /\ <>(/\ pc = "done"
          /\ \A n \in 1..4 : ~Files[n].open
          /\ \A k \in 1..yielded : SegOnDisk(k))

\* A cuda run that paused has ended with two segments written.
C7_Witness ==
    /\ device = "cuda"
    /\ pc = "done"
    /\ yielded = 2
    /\ last_sleep = pause_time
    /\ ~raised
    /\ SegOnDisk(2)

\* ------------------------------------------------------------------------
\* C8
\* ------------------------------------------------------------------------

\* C8: with a device other than "cuda" no pynvml function is ever called,
\* check_gpu_and_pause is never entered, the run never sleeps, and every
\* iteration goes from obtaining the segment straight to writing it.
C8_NoThermalProtectionOffCuda ==
    device # "cuda" =>
        /\ ~nvml_used
        /\ ncalls = 0
        /\ shutdowns = 0
        /\ last_sleep = 0
        /\ pc \notin CheckPhase

\* A run on another device has written two segments and ended.
C8_Witness ==
    /\ device = "auto"
    /\ pc = "done"
    /\ yielded = 2
    /\ SegOnDisk(2)

====
